---- MODULE Spec2Model ----
(***************************************************************************)
(* HierarchicalPlanner (FlightPlanner/HierarchicalPlanner):                *)
(* doReset, doIteration and the schedule search of _buildSchedule, with    *)
(* the path reconstruction through _getPathPortion.                        *)
(*                                                                         *)
(* Times are qreal seconds in the source.  Every time the planner handles  *)
(* is either a multiple of TIMESLICE or a task time                        *)
(* count * EVERY_X_METERS / AIRSPEED, so the model measures time in units  *)
(* of 1/AIRSPEED second: a time of u units is u / AIRSPEED seconds, the    *)
(* duration of a list of n waypoints is n * EVERY_X_METERS units and one   *)
(* TIMESLICE is TIMESLICE * AIRSPEED units.  Sums, differences and         *)
(* comparisons of times are exact in these units; the one place where the  *)
(* double arithmetic of the source departs from the exact value, the       *)
(* truncation to int in _getPathPortion, is modelled by PathIndex.         *)
(*                                                                         *)
(* A Position is a 6-tuple <<kind, a, b, c, d, k>> naming where the        *)
(* waypoint comes from:                                                    *)
(*   <<"sub", a, n, e, 0, k>>     waypoint k of the sub-flight of task     *)
(*                                <<a, n>> (task n of area a), planned     *)
(*                                from the area's start position e         *)
(*   <<"start", a, g, e, 0, k>>   waypoint k of the start transition       *)
(*                                planned from the global start position   *)
(*                                g to the start position e of area a      *)
(*   <<"areaStart", a, e, 0, 0, 0>> the start position of area a: end e    *)
(*                                (1 or 2, bestPoint1 or bestPoint2) of    *)
(*                                its longest chord                        *)
(*   <<"trans", j, sj, i, si, k>> waypoint k of the transition planned     *)
(*                                from task j at time sj to task i at      *)
(*                                time si                                  *)
(***************************************************************************)
EXTENDS Integers, Sequences, FiniteSets, TLC

\* ---------------------------------------------------------------- bounds
MaxAreas == 2
MaxTasksPerArea == 2
MaxTasks == 2
MaxCount == 8
MaxCountSingle == 33
MaxTransLen == 2
MaxIterations == 1
MaxRuns == 2
MaxStartPositions == 2
MaxCentre == 2
MaxCountSmall == 1
MaxSwitchLen == 9
MaxPathLen == 4
MaxLength == 6
MaxInterval == 3
MaxPlanCalls == 2

\* ------------------------------------------------------ program constants
EVERY_X_METERS == 30
AIRSPEED == 14
TIMESLICE == 15

\* one TIMESLICE in time units
Slice == TIMESLICE * AIRSPEED

\* length() * EVERY_X_METERS / AIRSPEED, in time units
Duration(len) == len * EVERY_X_METERS

TaskTypes == {"Flyover", "No-Fly Zone"}

\* an area is the list of the types of its tasks; a problem is a list of areas
AreaShapes == UNION {[1..n -> TaskTypes] : n \in 0..MaxTasksPerArea}
Problems == UNION {[1..n -> AreaShapes] : n \in 0..MaxAreas}

VARIABLES
    problem,                     \* PlanningProblem: areas and their tasks
    startingPosition,            \* PlanningProblem: the global start position
    areaCentres,                 \* per area, the centre of its bounding rectangle
    subFlightPlan,               \* what SubFlightPlanner returns per task: a waypoint count
    _tasks,                      \* QList of tasks, a task is <<area, index in area>>
    _tasks2areas,                \* QHash task -> area
    _obstacles,                  \* QList of polygons (the area of each No-Fly task)
    _areaStartPositions,         \* QHash area -> Position
    _areaStartOrientations,      \* QHash area -> UAVOrientation
    _startTransitionSubFlights,  \* QHash area -> QList<Position>
    _taskSubFlights,             \* QHash task -> QList<Position>
    pc,                          \* where doIteration stands
    iterations,                  \* iterations started so far
    taskTimes,                   \* _buildSchedule: QList<qreal>
    worklist,                    \* _buildSchedule: QMultiMap<qreal, QVectorND>
    closedSet,                   \* _buildSchedule: QSet<QVectorND>
    parents,                     \* _buildSchedule: QHash child -> parent
    lastTasks,                   \* _buildSchedule: QHash node -> index of last task
    transitionFlights,           \* _buildSchedule: QHash node -> QList<Position>
    schedule,                    \* _buildSchedule: QList<QVectorND>
    bestFlightSoFar,             \* FlightPlanner: the published path
    interp,                      \* one call of _interpolatePath: arguments and results
    dubins,                      \* one DubinsIntermediatePlanner object
    startPlans,                  \* history: areas the last _buildStartTransitions planned for
    published,                   \* history: calls of setBestFlightSoFar
    popped,                      \* history: states taken from the worklist, in order
    inserted,                    \* history: states put into the worklist, in order
    failedMoves,                 \* history: states whose transition plan() returned false
    traced                       \* history: the schedule as the traceback left it

vars == <<problem, startingPosition, areaCentres, subFlightPlan, interp, dubins,
          startPlans, _tasks, _tasks2areas, _obstacles,
          _areaStartPositions, _areaStartOrientations,
          _startTransitionSubFlights, _taskSubFlights, pc, iterations,
          taskTimes, worklist, closedSet, parents, lastTasks,
          transitionFlights, schedule, bestFlightSoFar, published, popped,
          inserted, failedMoves, traced>>

inputs == <<problem, startingPosition, areaCentres, subFlightPlan, interp, dubins>>
tables == <<_tasks, _tasks2areas, _obstacles>>
derived == <<_areaStartPositions, _areaStartOrientations,
             _startTransitionSubFlights, _taskSubFlights>>
search == <<taskTimes, worklist, closedSet, parents, lastTasks,
            transitionFlights, schedule>>
history == <<popped, inserted, failedMoves, traced>>

\* ---------------------------------------------------------------- helpers
Min(a, b) == IF a <= b THEN a ELSE b

Abs(x) == IF x < 0 THEN -x ELSE x

Range(s) == {s[k] : k \in DOMAIN s}

NoDuplicates(s) == \A k, l \in DOMAIN s : k # l => s[k] # s[l]

\* QHash::insert
Insert(h, key, val) == [x \in DOMAIN h \cup {key} |-> IF x = key THEN val ELSE h[x]]

EmptyHash == [x \in {} |-> 0]

\* QHash::value: the default-constructed value for a key that is not there
HashValue(h, key, default) == IF key \in DOMAIN h THEN h[key] ELSE default

RECURSIVE SumSeq(_)
SumSeq(s) == IF s = <<>> THEN 0 ELSE Head(s) + SumSeq(Tail(s))

\* QVectorND(int dimension): the origin
ZeroVector(n) == [k \in 1..n |-> 0]

\* QVectorND::operator-
VectorMinus(a, b) == [k \in DOMAIN a |-> a[k] - b[k]]

\* QVectorND::manhattanDistance
manhattanDistance(v) == SumSeq([k \in DOMAIN v |-> Abs(v[k])])

\* ---------------------------------------------------------------- doReset
\* the tasks of area a that doReset appends to _tasks, in order
\* a reset that makes a task of every task of the area, whatever its type
RECURSIVE AreaTasksAll(_, _, _)
AreaTasksAll(p, a, k) ==
    IF k > Len(p[a]) THEN <<>>
    ELSE << <<a, k>> >> \o AreaTasksAll(p, a, k + 1)

RECURSIVE AreaTasks(_, _, _)
AreaTasks(p, a, k) ==
    IF k > Len(p[a]) THEN <<>>
    ELSE (IF p[a][k] = "No-Fly Zone" THEN <<>> ELSE << <<a, k>> >>)
         \o AreaTasks(p, a, k + 1)

RECURSIVE ResetTasks(_, _)
ResetTasks(p, a) ==
    IF a > Len(p) THEN <<>> ELSE AreaTasks(p, a, 1) \o ResetTasks(p, a + 1)

\* the polygons doReset appends to _obstacles, in order
RECURSIVE AreaObstacles(_, _, _)
AreaObstacles(p, a, k) ==
    IF k > Len(p[a]) THEN <<>>
    ELSE (IF p[a][k] = "No-Fly Zone" THEN <<a>> ELSE <<>>)
         \o AreaObstacles(p, a, k + 1)

RECURSIVE ResetObstacles(_, _)
ResetObstacles(p, a) ==
    IF a > Len(p) THEN <<>> ELSE AreaObstacles(p, a, 1) \o ResetObstacles(p, a + 1)

ResetTasks2Areas(p) == [t \in Range(ResetTasks(p, 1)) |-> t[1]]

\* ------------------------------------------------------------- collaborators
\* IntermediatePlanner: plan() returns ok, results() a list of len waypoints.
\* A plan that fails on an invalid path leaves results() empty.
PlannerOutcomes ==
    {[ok |-> TRUE, len |-> l] : l \in 0..MaxTransLen} \cup {[ok |-> FALSE, len |-> 0]}

\* the plans that succeed with at least one waypoint, max at most
PositiveOutcomes(max) == {[ok |-> TRUE, len |-> l] : l \in 1..max}

\* _generateTransitionFlight: results() of the planner, plan()'s value unread
generateTransitionFlight(kind, a, b, c, d, out) ==
    [k \in 1..out.len |-> <<kind, a, b, c, d, k>>]

\* SubFlightPlanner(task, area, start, startPose)::results()
SubFlightResults(task, count, start) ==
    [k \in 1..count |-> <<"sub", task[1], task[2], start[3], 0, k>>]

\* ------------------------------------------------------------ construction
\* HierarchicalPlanner::HierarchicalPlanner calls doReset
\* no call of _interpolatePath is under observation
IdleInterp == [called |-> FALSE]

\* no DubinsIntermediatePlanner is under observation
IdleDubins == [calls |-> 0]

InitState(p) ==
    /\ problem = p
    /\ startingPosition = 1
    /\ startPlans = <<>>
    /\ _tasks = ResetTasks(p, 1)
    /\ _tasks2areas = ResetTasks2Areas(p)
    /\ _obstacles = ResetObstacles(p, 1)
    /\ _areaStartPositions = EmptyHash
    /\ _areaStartOrientations = EmptyHash
    /\ _startTransitionSubFlights = EmptyHash
    /\ _taskSubFlights = EmptyHash
    /\ pc = "paused"
    /\ iterations = 0
    /\ taskTimes = <<>>
    /\ worklist = <<>>
    /\ closedSet = {}
    /\ parents = EmptyHash
    /\ lastTasks = EmptyHash
    /\ transitionFlights = EmptyHash
    /\ schedule = <<>>
    /\ bestFlightSoFar = <<>>
    /\ published = 0
    /\ popped = <<>>
    /\ inserted = <<>>
    /\ failedMoves = {}
    /\ traced = <<>>

InitOf(p, counts) ==
    /\ InitState(p)
    /\ subFlightPlan \in [Range(ResetTasks(p, 1)) -> 0..counts]
    /\ areaCentres = [a \in 1..Len(p) |-> 0]
    /\ interp = IdleInterp
    /\ dubins = IdleDubins

Init ==
    \E p \in Problems :
        /\ Len(ResetTasks(p, 1)) <= MaxTasks
        /\ InitOf(p, MaxCount)

\* one area with one "Flyover" task
InitSingle == InitOf(<< <<"Flyover">> >>, MaxCountSingle)

\* ------------------------------------------------ _buildStartAndEndPositions
\* The geometry is modelled on one axis.  The bounding rectangle of area a
\* has its centre at areaCentres[a]; the chord search ends with bestPoint1
\* and bestPoint2 at HalfChord on either side of the centre.
HalfChord == 1

\* _tasks2areas.values(): one entry per task, in the order of the hash table,
\* which follows the addresses of the task objects
HashOrders(n) == {f \in [1..n -> 1..n] : \A k, l \in 1..n : k # l => f[k] # f[l]}

ValuesIn(order) == [k \in 1..Len(order) |-> _tasks2areas[_tasks[order[k]]]]

\* the first loop: the sum of the centres, which avgLonLat /= size() divides
CentreSum(values) == SumSeq([k \in 1..Len(values) |-> areaCentres[values[k]]])

\* start = bestPoint2 unless bestPoint1 is strictly nearer to avgLonLat;
\* every length is scaled by n, the number of values, to stay in the integers
StartChoice(a, navg, n) ==
    LET bestPoint1 == n * (areaCentres[a] + HalfChord)
        bestPoint2 == n * (areaCentres[a] - HalfChord)
    IN IF Abs(bestPoint1 - navg) < Abs(bestPoint2 - navg) THEN 1 ELSE 2

\* the second loop: avgLonLat += centerLonLat runs before the choice
RECURSIVE InsertAreaStarts(_, _, _, _, _)
InsertAreaStarts(h, values, navg, n, kind) ==
    IF values = <<>> THEN h
    ELSE LET area == Head(values)
             avg == navg + n * areaCentres[area]
         IN InsertAreaStarts(
                Insert(h, area, <<kind, area, StartChoice(area, avg, n), 0, 0, 0>>),
                Tail(values), avg, n, kind)

Tasks2AreasValues == [k \in 1..Len(_tasks) |-> _tasks2areas[_tasks[k]]]

AreaStartsIn(h, order, kind) ==
    InsertAreaStarts(h, ValuesIn(order), CentreSum(ValuesIn(order)), Len(order), kind)

StartIteration(limit) ==
    /\ pc = "paused"
    /\ iterations < limit
    /\ iterations' = iterations + 1
    /\ \E order \in HashOrders(Len(_tasks)) :
           /\ _areaStartPositions' =
                  AreaStartsIn(_areaStartPositions, order, "areaStart")
           /\ _areaStartOrientations' =
                  AreaStartsIn(_areaStartOrientations, order, "areaPose")
    /\ pc' = "startTransitions"
    /\ UNCHANGED <<inputs, startPlans, tables, _startTransitionSubFlights,
                   _taskSubFlights, search, bestFlightSoFar, published, history>>

BuildStartAndEndPositions == StartIteration(MaxIterations)

\* ---------------------------------------------------- _buildStartTransitions
RECURSIVE StartTransitions(_, _, _)
StartTransitions(h, tasks, outs) ==
    IF tasks = <<>> THEN h
    ELSE LET area == _tasks2areas[Head(tasks)]
         IN IF area \in DOMAIN h
            THEN StartTransitions(h, Tail(tasks), outs)
            ELSE StartTransitions(
                     Insert(h, area,
                            generateTransitionFlight(
                                "start", area, startingPosition,
                                _areaStartPositions[area][3], 0, outs[area])),
                     Tail(tasks), outs)

\* the areas _generateTransitionFlight is called for, in order
RECURSIVE PlannedAreas(_, _)
PlannedAreas(known, tasks) ==
    IF tasks = <<>> THEN <<>>
    ELSE LET area == _tasks2areas[Head(tasks)]
         IN IF area \in known
            THEN PlannedAreas(known, Tail(tasks))
            ELSE <<area>> \o PlannedAreas(known \cup {area}, Tail(tasks))

BuildStartTransitionsWith(outcomes) ==
    /\ pc = "startTransitions"
    /\ \E outs \in [Range(Tasks2AreasValues) -> outcomes] :
           _startTransitionSubFlights' =
               StartTransitions(_startTransitionSubFlights, _tasks, outs)
    /\ startPlans' = PlannedAreas(DOMAIN _startTransitionSubFlights, _tasks)
    /\ pc' = "subFlights"
    /\ UNCHANGED <<inputs, tables, _areaStartPositions,
                   _areaStartOrientations, _taskSubFlights, search, iterations,
                   bestFlightSoFar, published, history>>

BuildStartTransitions == BuildStartTransitionsWith(PlannerOutcomes)

\* ---------------------------------------------------------- _buildSubFlights
RECURSIVE SubFlights(_, _)
SubFlights(h, tasks) ==
    IF tasks = <<>> THEN h
    ELSE SubFlights(Insert(h, Head(tasks),
                           SubFlightResults(Head(tasks), subFlightPlan[Head(tasks)],
                                            _areaStartPositions[_tasks2areas[Head(tasks)]])),
                    Tail(tasks))

BuildSubFlights ==
    /\ pc = "subFlights"
    /\ _taskSubFlights' = SubFlights(_taskSubFlights, _tasks)
    /\ pc' = "schedule"
    /\ UNCHANGED <<inputs, startPlans, tables, _areaStartPositions,
                   _areaStartOrientations, _startTransitionSubFlights, search,
                   iterations, bestFlightSoFar, published, history>>

\* ------------------------------------------------------------ _buildSchedule
\* timeRequired = subFlight.length() * EVERY_X_METERS / AIRSPEED, per task
TaskTimesOf(subFlights) ==
    [i \in 1..Len(_tasks) |-> Duration(Len(subFlights[_tasks[i]]))]

startState == ZeroVector(Len(_tasks))

endState == taskTimes

\* a multimap that puts a new item after the items that already have its key
WorklistInsertAfter(wl, key, value) ==
    SelectSeq(wl, LAMBDA e : e.key <= key)
        \o <<[key |-> key, value |-> value]>>
        \o SelectSeq(wl, LAMBDA e : e.key > key)

\* QMultiMap::insert: keys ascending, a new item goes before the items that
\* already have its key
WorklistInsert(wl, key, value) ==
    SelectSeq(wl, LAMBDA e : e.key < key)
        \o <<[key |-> key, value |-> value]>>
        \o SelectSeq(wl, LAMBDA e : e.key >= key)

BuildScheduleInit ==
    /\ pc = "schedule"
    /\ taskTimes' = TaskTimesOf(_taskSubFlights)
    /\ parents' = EmptyHash
    /\ lastTasks' = EmptyHash
    /\ transitionFlights' = EmptyHash
    /\ closedSet' = {}
    /\ worklist' = WorklistInsert(<<>>, 0, startState)
    /\ schedule' = <<>>
    /\ popped' = <<>>
    /\ inserted' = <<startState>>
    /\ failedMoves' = {}
    /\ traced' = <<>>
    /\ pc' = "search"
    /\ UNCHANGED <<inputs, startPlans, tables, derived, iterations,
                   bestFlightSoFar, published>>

\* a traceback that tests for a parent before it prepends, and so leaves out
\* the state that has none
RECURSIVE TracebackOmitsRoot(_, _)
TracebackOmitsRoot(current, par) ==
    IF current \in DOMAIN par
    THEN Append(TracebackOmitsRoot(par[current], par), current)
    ELSE <<>>

\* a traceback that stops at the first state whose parent has no parent
RECURSIVE TracebackStopsAtChild(_, _)
TracebackStopsAtChild(current, par) ==
    IF current \in DOMAIN par /\ par[current] \in DOMAIN par
    THEN Append(TracebackStopsAtChild(par[current], par), current)
    ELSE <<current>>

\* the traceback loop: prepend current, follow parents while there is one
RECURSIVE Traceback(_, _)
Traceback(current, par) ==
    IF current \in DOMAIN par
    THEN Append(Traceback(par[current], par), current)
    ELSE <<current>>

\* a penalty whose transition ends at the point the task has after the move
SwitchOfAdvanced(st, state, i, out) ==
    IF state \notin DOMAIN st.lastTasks
    THEN [planned |-> FALSE,
          penalty |-> Duration(Len(_startTransitionSubFlights[_tasks2areas[_tasks[i]]]))]
    ELSE IF st.lastTasks[state] = i
    THEN [planned |-> FALSE, penalty |-> 0]
    ELSE LET j == st.lastTasks[state]
             intermed == generateTransitionFlight(
                             "trans", j, state[j], i,
                             Min(taskTimes[i], state[i] + Slice), out)
         IN [planned |-> TRUE, penalty |-> Duration(Len(intermed)),
             intermed |-> intermed]

\* the penalty of the move from state on axis i, and the transition planned
\* for it; out is what the intermediate planner does if it is called (it is
\* read on that branch only)
SwitchOf(st, state, i, out) ==
    IF state \notin DOMAIN st.lastTasks
    THEN [planned |-> FALSE,
          penalty |-> Duration(Len(_startTransitionSubFlights[_tasks2areas[_tasks[i]]]))]
    ELSE IF st.lastTasks[state] = i
    THEN [planned |-> FALSE, penalty |-> 0]
    ELSE LET j == st.lastTasks[state]
             intermed == generateTransitionFlight("trans", j, state[j], i, state[i], out)
         IN [planned |-> TRUE, penalty |-> Duration(Len(intermed)),
             intermed |-> intermed]

\* newState[i] = newState[i] + TIMESLICE, without the qMin
AdvanceUncapped(state, i) == [state EXCEPT ![i] = state[i] + Slice]

\* newState[i] = qMin(taskTimes[i], newState[i] + 2 * TIMESLICE)
AdvanceTwoSlices(state, i) ==
    [state EXCEPT ![i] = Min(taskTimes[i], state[i] + 2 * Slice)]

\* newState[i] = qMin(taskTimes[i], newState[i] + TIMESLICE / 2)
AdvanceHalfSlice(state, i) ==
    [state EXCEPT ![i] = Min(taskTimes[i], state[i] + Slice \div 2)]

\* newState = state; newState[i] = qMin(taskTimes[i], newState[i] + TIMESLICE)
Advance(state, i) == [state EXCEPT ![i] = Min(taskTimes[i], state[i] + Slice)]

\* closedSet.contains(newState)
IsClosed(closed, s) == s \in closed

\* a bookkeeping that records the first task for every move
RecordMoveFirstTask(st, newState, state, i) ==
    [st EXCEPT !.closedSet = @ \cup {newState},
               !.parents = Insert(@, newState, state),
               !.lastTasks = Insert(@, newState, 1)]

\* a bookkeeping that closes a state only when it is popped, not when it is
\* generated
RecordMoveNotClosed(st, newState, state, i) ==
    [st EXCEPT !.parents = Insert(@, newState, state),
               !.lastTasks = Insert(@, newState, i)]

\* a bookkeeping that records, for a state whose parent has a last task, that
\* task instead of the axis of the move
RecordMoveParentAxis(st, newState, state, i) ==
    [st EXCEPT !.closedSet = @ \cup {newState},
               !.parents = Insert(@, newState, state),
               !.lastTasks = Insert(@, newState, HashValue(st.lastTasks, state, i))]

\* closedSet.insert(newState); parents.insert(newState, state);
\* lastTasks.insert(newState, i)
RecordMove(st, newState, state, i) ==
    [st EXCEPT !.closedSet = @ \cup {newState},
               !.parents = Insert(@, newState, state),
               !.lastTasks = Insert(@, newState, i)]

\* one pass of the body of "for (int i = 0; i < state.dimension(); i++)"
ExpandAxis(st, state, i, out) ==
    LET newState == Advance(state, i)
    IN IF IsClosed(st.closedSet, newState) THEN st
       ELSE LET st1 == RecordMove(st, newState, state, i)
                sw == SwitchOf(st1, state, i, out)
                cost == manhattanDistance(VectorMinus(endState, state)) + sw.penalty
            IN [st1 EXCEPT
                   !.transitionFlights =
                       IF sw.planned THEN Insert(@, newState, sw.intermed) ELSE @,
                   !.failedMoves =
                       IF sw.planned /\ ~out.ok THEN @ \cup {newState} ELSE @,
                   !.worklist = WorklistInsert(@, cost, newState),
                   !.inserted = Append(@, newState)]

RECURSIVE Expand(_, _, _, _)
Expand(st, state, i, outs) ==
    IF i > Len(state) THEN st
    ELSE Expand(ExpandAxis(st, state, i, outs[i]), state, i + 1, outs)

\* the axes on which expanding state calls the intermediate planner: state
\* has a last task, the axis is another one, and the new state is not closed
PlanningAxes(state) ==
    {i \in 1..Len(state) :
        /\ state \in DOMAIN lastTasks
        /\ lastTasks[state] # i
        /\ ~IsClosed(closedSet \cup {state}, Advance(state, i))}

\* one pass of "while (!worklist.isEmpty())"
SearchStepWith(outcomes) ==
    /\ pc = "search"
    /\ worklist # <<>>
    /\ LET state == Head(worklist).value
       IN /\ popped' = Append(popped, state)
          /\ \/ /\ state = endState
                /\ schedule' = Traceback(state, parents)
                /\ traced' = schedule'
                /\ closedSet' = closedSet \cup {state}
                /\ worklist' = Tail(worklist)
                /\ pc' = "reconstruct"
                /\ UNCHANGED <<parents, lastTasks, transitionFlights, inserted,
                               failedMoves>>
             \/ /\ state # endState
                /\ \E outs \in [PlanningAxes(state) -> outcomes] :
                       LET st == Expand([closedSet |-> closedSet \cup {state},
                                         parents |-> parents,
                                         lastTasks |-> lastTasks,
                                         transitionFlights |-> transitionFlights,
                                         worklist |-> Tail(worklist),
                                         inserted |-> inserted,
                                         failedMoves |-> failedMoves],
                                        state, 1, outs)
                       IN /\ closedSet' = st.closedSet
                          /\ parents' = st.parents
                          /\ lastTasks' = st.lastTasks
                          /\ transitionFlights' = st.transitionFlights
                          /\ worklist' = st.worklist
                          /\ inserted' = st.inserted
                          /\ failedMoves' = st.failedMoves
                /\ pc' = "search"
                /\ UNCHANGED <<schedule, traced>>
    /\ UNCHANGED <<inputs, startPlans, tables, derived, iterations, taskTimes,
                   bestFlightSoFar, published>>

SearchStep == SearchStepWith(PlannerOutcomes)

\* ----------------------------------------------------------- _getPathPortion
\* The waypoint counts n below 200 for which the double expression
\* (n * 30.0 / 14.0) * 14.0 / 30.0 evaluates below n, so that its truncation
\* to int is n - 1 (IEEE-754 binary64, round to nearest)
RoundsDown == {33, 66, 125, 132}

\* (int)(time * AIRSPEED / EVERY_X_METERS): exact for a multiple of TIMESLICE,
\* and for a task time n * EVERY_X_METERS / AIRSPEED that is not one, n or
\* n - 1 as the rounding of the quotient decides
PathIndex(u) ==
    IF u % Slice # 0 /\ u % EVERY_X_METERS = 0 /\ (u \div EVERY_X_METERS) \in RoundsDown
    THEN (u \div EVERY_X_METERS) - 1
    ELSE u \div EVERY_X_METERS

\* a portion whose loop runs while i <= endingIndex
getPathPortionInclusive(path, portionStartTime, portionEndTime) ==
    LET startingIndex == PathIndex(portionStartTime)
        endingIndex == PathIndex(portionEndTime)
    IN [k \in 1..(endingIndex - startingIndex + 1) |->
            IF startingIndex + k <= Len(path)
            THEN path[startingIndex + k]
            ELSE <<"outOfRange", 0, 0, 0, 0, startingIndex + k>>]

\* path[i] for i in [startingIndex, endingIndex); an index past the end of
\* the list reads no waypoint of it
getPathPortion(path, portionStartTime, portionEndTime) ==
    LET startingIndex == PathIndex(portionStartTime)
        endingIndex == PathIndex(portionEndTime)
    IN [k \in 1..(endingIndex - startingIndex) |->
            IF startingIndex + k <= Len(path)
            THEN path[startingIndex + k]
            ELSE <<"outOfRange", 0, 0, 0, 0, startingIndex + k>>]

\* -------------------------------------------------- path reconstruction
\* a reconstruction that appends no transition at a change of task
RECURSIVE PathFromNoSplice(_, _, _)
PathFromNoSplice(prevInterval, rest, path) ==
    IF rest = <<>> THEN path
    ELSE LET interval == Head(rest)
             taskIndex == HashValue(lastTasks, interval, 1)
             task == _tasks[taskIndex]
             area == HashValue(_tasks2areas, task, 0)
             prefix == IF prevInterval = startState
                       THEN HashValue(_startTransitionSubFlights, area, <<>>)
                       ELSE <<>>
             portion == getPathPortion(HashValue(_taskSubFlights, task, <<>>),
                                       prevInterval[taskIndex], interval[taskIndex])
         IN PathFromNoSplice(interval, Tail(rest), path \o prefix \o portion)

\* the loop "foreach (interval, schedule)" from prevInterval on: what it
\* appends to path (the task index is 1-based here, QHash::value's default
\* index 0 is task 1)
RECURSIVE PathFrom(_, _, _)
PathFrom(prevInterval, rest, path) ==
    IF rest = <<>> THEN path
    ELSE LET interval == Head(rest)
             taskIndex == HashValue(lastTasks, interval, 1)
             task == _tasks[taskIndex]
             area == HashValue(_tasks2areas, task, 0)
             prefix == IF prevInterval = startState
                       THEN HashValue(_startTransitionSubFlights, area, <<>>)
                       ELSE IF HashValue(lastTasks, prevInterval, 1) # taskIndex
                       THEN HashValue(transitionFlights, interval, <<>>)
                       ELSE <<>>
             portion == getPathPortion(HashValue(_taskSubFlights, task, <<>>),
                                       prevInterval[taskIndex], interval[taskIndex])
         IN PathFrom(interval, Tail(rest), path \o prefix \o portion)

\* prevInterval = schedule[0]; schedule.removeFirst(); the loop;
\* setBestFlightSoFar(path); then doIteration's pausePlanning()
Reconstruct ==
    /\ pc = "reconstruct"
    /\ schedule' = Tail(schedule)
    /\ bestFlightSoFar' = PathFrom(Head(schedule), Tail(schedule), <<>>)
    /\ published' = published + 1
    /\ pc' = "paused"
    /\ UNCHANGED <<inputs, startPlans, tables, derived, iterations, taskTimes,
                   worklist, closedSet, parents, lastTasks, transitionFlights,
                   history>>

\* ---------------------------------------------------------- _interpolatePath
\* Positions lie on one axis, in metres (a degree per metre is 1).  Times are
\* in time units, so that EVERY_X_METERS / AIRSPEED is EVERY_X_METERS units
\* and EVERY_X_METERS * ratio is goalTime - lastTime metres.
\* QVector2D::normalize: the unit vector of direction d, the null vector as is
Normalized(d) == IF d > 0 THEN 1 ELSE IF d < 0 THEN -1 ELSE 0

\* a loop that goes on while timeSoFar <= goalTime
SegmentAtStrict(path, goalTime) ==
    IF \E i \in 1..(Len(path) - 1) : i * EVERY_X_METERS > goalTime
    THEN CHOOSE i \in 1..(Len(path) - 1) :
             /\ i * EVERY_X_METERS > goalTime
             /\ \A j \in 1..(i - 1) : ~(j * EVERY_X_METERS > goalTime)
    ELSE Len(path) - 1

\* the index i at which the loop breaks: the first with timeSoFar >= goalTime,
\* or path.size() - 1
SegmentAt(path, goalTime) ==
    IF \E i \in 1..(Len(path) - 1) : i * EVERY_X_METERS >= goalTime
    THEN CHOOSE i \in 1..(Len(path) - 1) :
             /\ i * EVERY_X_METERS >= goalTime
             /\ \A j \in 1..(i - 1) : j * EVERY_X_METERS < goalTime
    ELSE Len(path) - 1

\* the body of the if inside the loop, for path[i] (1-based: path[i + 1]);
\* ratio is the pair numerator, denominator
Interpolated(path, goalTime, i) ==
    LET pos == path[i + 1]
        lastPos == path[i]
        timeSoFar == i * EVERY_X_METERS
        lastTime == timeSoFar - EVERY_X_METERS
        dirVecMeters == Normalized(pos - lastPos)
    IN [ret |-> TRUE,
        outPosition |-> lastPos + (goalTime - lastTime) * dirVecMeters,
        outOrientation |-> <<"heading", dirVecMeters>>,
        segment |-> i,
        ratio |-> <<goalTime - lastTime, timeSoFar - lastTime>>]

\* an interpolation that gives up when the path ends before goalTime
interpolatePathStrict(a) ==
    IF ~a.outPositionPtr \/ ~a.outOrientationPtr \/ a.goalTime < 0 \/ a.path = <<>>
    THEN [ret |-> FALSE, outPosition |-> a.outPosition,
          outOrientation |-> a.outOrientation, segment |-> 0, ratio |-> <<0, 1>>]
    ELSE IF Len(a.path) = 1
    THEN [ret |-> TRUE, outPosition |-> a.path[1],
          outOrientation |-> a.startingOrientation, segment |-> 0, ratio |-> <<0, 1>>]
    ELSE IF (Len(a.path) - 1) * EVERY_X_METERS < a.goalTime
    THEN [Interpolated(a.path, a.goalTime, SegmentAt(a.path, a.goalTime))
             EXCEPT !.ret = FALSE]
    ELSE Interpolated(a.path, a.goalTime, SegmentAt(a.path, a.goalTime))

\* _interpolatePath on the arguments a: the value returned and what
\* *outPosition and *outOrientation hold afterwards
interpolatePath(a) ==
    IF ~a.outPositionPtr \/ ~a.outOrientationPtr \/ a.goalTime < 0 \/ a.path = <<>>
    THEN [ret |-> FALSE, outPosition |-> a.outPosition,
          outOrientation |-> a.outOrientation, segment |-> 0, ratio |-> <<0, 1>>]
    ELSE IF Len(a.path) = 1
    THEN [ret |-> TRUE, outPosition |-> a.path[1],
          outOrientation |-> a.startingOrientation, segment |-> 0, ratio |-> <<0, 1>>]
    ELSE Interpolated(a.path, a.goalTime, SegmentAt(a.path, a.goalTime))

\* the waypoints and times a call is made with
PathPositions == {k * EVERY_X_METERS : k \in 0..(MaxPathLen - 1)}

Paths == UNION {[1..n -> PathPositions] : n \in 0..MaxPathLen}

GoalTimes == {k * (EVERY_X_METERS \div 2) : k \in (-1)..(2 * MaxPathLen + 2)}

InterpCalls ==
    [called : {FALSE}, path : Paths, startingOrientation : {<<"heading", 0>>},
     goalTime : GoalTimes, outPositionPtr : BOOLEAN, outOrientationPtr : BOOLEAN,
     outPosition : {"before"}, outOrientation : {"before"}, ret : {FALSE},
     segment : {0}, ratio : {<<0, 1>>}]

\* one call of _interpolatePath
InterpolatePath ==
    /\ ~interp.called
    /\ LET r == interpolatePath(interp)
       IN interp' = [interp EXCEPT !.called = TRUE, !.ret = r.ret,
                                   !.outPosition = r.outPosition,
                                   !.outOrientation = r.outOrientation,
                                   !.segment = r.segment, !.ratio = r.ratio]
    /\ UNCHANGED <<problem, startingPosition, areaCentres, subFlightPlan, dubins,
                   startPlans, tables, derived, pc, iterations, search,
                   bestFlightSoFar, published, history>>

\* ------------------------------------------------ DubinsIntermediatePlanner
\* lengths are in metres.  qRound(lengthMeters / waypointInterval), the
\* quotient not negative: (int)(quotient + 0.5)
qRound(length, interval) == (2 * length + interval) \div (2 * interval)

\* the position the loop appends for the sample at arc length t
SamplePosition(t) == <<"dubins", t, 0, 0, 0, 0>>

\* the loop "for (int i = 0; i < numSamples; i++)" from index i on: it stops
\* with false at the first sample that dubins.sample() refuses
RECURSIVE SampleFrom(_, _, _, _, _)
SampleFrom(i, numSamples, interval, failAt, results) ==
    IF i >= numSamples THEN [ret |-> TRUE, _results |-> results]
    ELSE IF i = failAt THEN [ret |-> FALSE, _results |-> results]
    ELSE SampleFrom(i + 1, numSamples, interval, failAt,
                    Append(results, SamplePosition(i * interval)))

\* a plan() without the _results.clear() at its head
planKeepsResults(d) ==
    IF ~d.valid THEN [ret |-> FALSE, _results |-> d._results]
    ELSE SampleFrom(0, qRound(d.length, d.interval), d.interval, d.failAt, d._results)

\* DubinsIntermediatePlanner::plan() on the object d
plan(d) ==
    IF ~d.valid THEN [ret |-> FALSE, _results |-> <<>>]
    ELSE SampleFrom(0, qRound(d.length, d.interval), d.interval, d.failAt, <<>>)

\* the planner objects: what Dubins says of the path between the end points
\* of the object (isValid(), length(), the index of the first sample it
\* refuses, -1 for none) and the waypointInterval of its UAVParameters
DubinsPlanners ==
    [calls : {0}, valid : BOOLEAN, length : 0..MaxLength, interval : 1..MaxInterval,
     failAt : (-1)..MaxLength, _results : {<<>>}, ret : {FALSE}]

\* one call of plan() on the object
Plan ==
    /\ dubins.calls < MaxPlanCalls
    /\ LET r == plan(dubins)
       IN dubins' = [dubins EXCEPT !.calls = @ + 1, !.ret = r.ret,
                                   !._results = r._results]
    /\ UNCHANGED <<problem, startingPosition, areaCentres, subFlightPlan, interp,
                   startPlans, tables, derived, pc, iterations, search,
                   bestFlightSoFar, published, history>>

\* ------------------------------------------------------ the planner's client
\* FlightPlanner::reset() calls doReset() between two iterations
DoReset ==
    /\ pc = "paused"
    /\ _tasks' = ResetTasks(problem, 1)
    /\ _tasks2areas' = ResetTasks2Areas(problem)
    /\ _obstacles' = ResetObstacles(problem, 1)
    /\ _areaStartPositions' = EmptyHash
    /\ _areaStartOrientations' = EmptyHash
    /\ _startTransitionSubFlights' = EmptyHash
    /\ _taskSubFlights' = EmptyHash
    /\ UNCHANGED <<inputs, startPlans, pc, iterations, search, bestFlightSoFar,
                   published, history>>

\* the client moves the problem's starting position between two iterations
SetStartingPosition ==
    /\ pc = "paused"
    /\ \E g \in (1..MaxStartPositions) \ {startingPosition} :
           startingPosition' = g
    /\ UNCHANGED <<problem, areaCentres, subFlightPlan, interp, dubins, startPlans, tables,
                   derived, pc, iterations, search, bestFlightSoFar, published,
                   history>>

\* a further iteration on the same planner object
IterateAgain == StartIteration(MaxRuns)

\* ----------------------------------------------------------- specifications
Next ==
    \/ BuildStartAndEndPositions
    \/ BuildStartTransitions
    \/ BuildSubFlights
    \/ BuildScheduleInit
    \/ SearchStep
    \/ Reconstruct

Spec == Init /\ [][Next]_vars

\* the single-task problems, with longer sub-flights
SpecSingle == InitSingle /\ [][Next]_vars

\* several iterations on one planner object, the client resetting it and
\* moving the starting position in between; short sub-flights
InitLifecycle ==
    \E p \in Problems :
        /\ Len(ResetTasks(p, 1)) <= MaxTasks
        /\ InitOf(p, MaxCountSmall)

NextLifecycle ==
    \/ IterateAgain
    \/ BuildStartTransitions
    \/ BuildSubFlights
    \/ BuildScheduleInit
    \/ SearchStep
    \/ Reconstruct
    \/ DoReset
    \/ SetStartingPosition

SpecLifecycle == InitLifecycle /\ [][NextLifecycle]_vars

\* one iteration over areas that lie apart: the centres of the bounding
\* rectangles differ; short sub-flights
InitEndpoints ==
    \E p \in Problems :
        /\ Len(ResetTasks(p, 1)) <= MaxTasks
        /\ InitState(p)
        /\ subFlightPlan \in [Range(ResetTasks(p, 1)) -> 0..MaxCountSmall]
        /\ areaCentres \in [1..Len(p) -> (-MaxCentre)..MaxCentre]
        /\ interp = IdleInterp
    /\ dubins = IdleDubins

SpecEndpoints == InitEndpoints /\ [][Next]_vars

\* two "Flyover" tasks, in one area or in two, no "No-Fly Zone"; each
\* sub-flight has the waypoint count whose task time is two TIMESLICE, and
\* every transition the planner returns has a waypoint
TwoTaskCount == (2 * Slice) \div EVERY_X_METERS

InitTwoTasks ==
    \E p \in {<< <<"Flyover">>, <<"Flyover">> >>, << <<"Flyover", "Flyover">> >>} :
        /\ InitState(p)
        /\ subFlightPlan = [t \in Range(ResetTasks(p, 1)) |-> TwoTaskCount]
        /\ areaCentres = [a \in 1..Len(p) |-> 0]
        /\ interp = IdleInterp
    /\ dubins = IdleDubins

BuildStartTransitionsPositive == BuildStartTransitionsWith(PositiveOutcomes(MaxTransLen))

SearchStepPositive == SearchStepWith(PositiveOutcomes(MaxSwitchLen))

NextTwoTasks ==
    \/ BuildStartAndEndPositions
    \/ BuildStartTransitionsPositive
    \/ BuildSubFlights
    \/ BuildScheduleInit
    \/ SearchStepPositive
    \/ Reconstruct

SpecTwoTasks == InitTwoTasks /\ [][NextTwoTasks]_vars

\* calls of _interpolatePath on a planner without a problem
InitInterpolate ==
    /\ InitState(<<>>)
    /\ subFlightPlan = EmptyHash
    /\ areaCentres = <<>>
    /\ interp \in InterpCalls
    /\ dubins = IdleDubins

SpecInterpolate == InitInterpolate /\ [][InterpolatePath]_vars

\* calls of plan() on one DubinsIntermediatePlanner
InitDubins ==
    /\ InitState(<<>>)
    /\ subFlightPlan = EmptyHash
    /\ areaCentres = <<>>
    /\ interp = IdleInterp
    /\ dubins \in DubinsPlanners

SpecDubins == InitDubins /\ [][Plan]_vars

\* doIteration runs to its end once started
FairSpec == Spec /\ WF_vars(Next)

\* doIteration, once started, reaches pausePlanning()
IterationTerminates == (pc = "startTransitions") ~> (pc = "paused")

\* ------------------------------------------------------------------ claims
CeilDiv(a, b) == (a + b - 1) \div b

\* the moves task time t needs: ceil(t / TIMESLICE)
MovesFor(t) == CeilDiv(t, Slice)

RECURSIVE Product(_)
Product(s) == IF s = <<>> THEN 1 ELSE Head(s) * Product(Tail(s))

Last(s) == s[Len(s)]

\* the edges of the traced schedule: k stands for (traced[k], traced[k+1])
Edges == 1..(Len(traced) - 1)

\* the axes on which the two states of edge k differ
ChangedAxes(k) == {i \in 1..Len(_tasks) : traced[k + 1][i] # traced[k][i]}

\* C1: with at least one task the search ends by popping the goal: while it
\* runs the frontier is never empty, it pops at most one state per point of
\* the lattice of task times, the last state popped is the goal, and the
\* schedule it leaves has at most sum_i ceil(T_i / TIMESLICE) moves.
C1_SearchReachesGoal ==
    Len(_tasks) >= 1 =>
        /\ pc = "search" => /\ worklist # <<>>
                            /\ endState \notin Range(popped)
        /\ pc \in {"search", "reconstruct"} =>
               Len(popped) <= Product([i \in 1..Len(_tasks) |-> MovesFor(taskTimes[i]) + 1])
        /\ pc = "reconstruct" =>
               /\ Last(popped) = endState
               /\ Last(schedule) = endState
               /\ Len(schedule) - 1 <= SumSeq([i \in 1..Len(_tasks) |-> MovesFor(taskTimes[i])])

C1_Witness ==
    /\ pc = "reconstruct"
    /\ Len(_tasks) = 2
    /\ Len(schedule) = 5
    /\ Len(popped) > Len(schedule)

\* C2: along the schedule every state is componentwise at least its
\* predecessor, and differs from it on exactly one axis, by at most TIMESLICE.
C2_MonotoneProgress ==
    \A k \in Edges :
        /\ \A i \in 1..Len(_tasks) : traced[k + 1][i] >= traced[k][i]
        /\ Cardinality(ChangedAxes(k)) = 1
        /\ \A i \in ChangedAxes(k) : traced[k + 1][i] - traced[k][i] <= Slice

C2_Witness ==
    /\ Len(traced) >= 4
    /\ \E k \in Edges : \E i \in ChangedAxes(k) : traced[k + 1][i] - traced[k][i] = Slice
    /\ \E k \in Edges : \E i \in ChangedAxes(k) : traced[k + 1][i] - traced[k][i] < Slice

\* C3: the schedule starts at the origin and ends in the state that has
\* every task at its full time.
C3_Saturation ==
    traced # <<>> =>
        /\ traced[1] = [i \in 1..Len(_tasks) |-> 0]
        /\ \A i \in 1..Len(_tasks) : Last(traced)[i] = taskTimes[i]

C3_Witness ==
    /\ Len(traced) >= 4
    /\ Len(_tasks) = 2
    /\ Last(traced)[1] > Slice
    /\ Last(traced)[2] \in 1..(Slice - 1)

\* C4: no state is popped twice, none is put into the frontier twice, and
\* the schedule holds no state twice.
C4_NoRevisit ==
    /\ NoDuplicates(popped)
    /\ NoDuplicates(inserted)
    /\ NoDuplicates(traced)

C4_Witness ==
    /\ pc = "reconstruct"
    /\ Len(popped) >= 4
    /\ Len(inserted) > Len(popped)
    /\ Len(popped) > Len(schedule)

\* the time the schedule works task i: the sum of cur_i - prev_i over the
\* edges whose lastAxis is i
RECURSIVE WorkedFrom(_, _)
WorkedFrom(i, k) ==
    IF k >= Len(traced) THEN 0
    ELSE (IF lastTasks[traced[k + 1]] = i
          THEN traced[k + 1][i] - traced[k][i] ELSE 0) + WorkedFrom(i, k + 1)

\* C5: the schedule works every task for exactly its task time.
C5_Coverage ==
    traced # <<>> =>
        \A i \in 1..Len(_tasks) : WorkedFrom(i, 1) = taskTimes[i]

C5_Witness ==
    /\ Len(_tasks) = 2
    /\ Len(traced) >= 4
    /\ lastTasks[traced[2]] # lastTasks[traced[3]]
    /\ lastTasks[traced[3]] # lastTasks[traced[4]]

\* the sub-flight of task index i, the area of task index i
SubFlightOf(i) == _taskSubFlights[_tasks[i]]
AreaOf(i) == _tasks2areas[_tasks[i]]

\* edge k is a change of task after the origin
IsContextSwitch(k) ==
    /\ k > 1
    /\ lastTasks[traced[k]] # lastTasks[traced[k + 1]]

\* what splice completeness has the reconstruction append for edge k
ExpectedPrefix(k) ==
    IF traced[k] = [i \in 1..Len(_tasks) |-> 0]
    THEN _startTransitionSubFlights[AreaOf(lastTasks[traced[k + 1]])]
    ELSE IF lastTasks[traced[k]] # lastTasks[traced[k + 1]]
    THEN transitionFlights[traced[k + 1]]
    ELSE <<>>

RECURSIVE ExpectedPathFrom(_)
ExpectedPathFrom(k) ==
    IF k >= Len(traced) THEN <<>>
    ELSE LET i == lastTasks[traced[k + 1]]
         IN ExpectedPrefix(k)
                \o getPathPortion(SubFlightOf(i), traced[k][i], traced[k + 1][i])
                \o ExpectedPathFrom(k + 1)

\* C6: every change of task after the origin has a transition memoized
\* under the state it leads to, planned from the point reached on the task
\* left to the point reached on the task entered, and the published path is,
\* edge by edge, the start transition (edge leaving the origin), that
\* memoized transition (change of task) or nothing (same task), followed by
\* the slice of the sub-flight.
C6_SpliceCompleteness ==
    (pc = "paused" /\ published >= 1) =>
        /\ \A k \in Edges :
               IsContextSwitch(k) =>
                   /\ traced[k + 1] \in DOMAIN transitionFlights
                   /\ LET j == lastTasks[traced[k]]
                          i == lastTasks[traced[k + 1]]
                          flight == transitionFlights[traced[k + 1]]
                      IN \A n \in DOMAIN flight :
                             flight[n] = <<"trans", j, traced[k][j], i, traced[k][i], n>>
        /\ bestFlightSoFar = ExpectedPathFrom(1)

C6_Witness ==
    /\ pc = "paused"
    /\ published >= 1
    /\ \E k \in Edges : IsContextSwitch(k) /\ Len(transitionFlights[traced[k + 1]]) >= 1
    /\ \E k \in Edges : k > 1 /\ ~IsContextSwitch(k)
    /\ Len(ExpectedPrefix(1)) >= 1

\* C7: with one task the schedule is ceil(T_0 / TIMESLICE) moves on that
\* task and the published path is the start transition of its area followed
\* by its whole sub-flight, every waypoint once and in order.  (Stated for a
\* sub-flight that has a waypoint; with an empty one the schedule has no
\* edge and not even the start transition is published.)
C7_SingleTaskPath ==
    (pc = "paused" /\ published >= 1 /\ Len(_tasks) = 1 /\ Len(SubFlightOf(1)) >= 1) =>
        /\ Len(traced) - 1 = MovesFor(taskTimes[1])
        /\ \A k \in Edges : lastTasks[traced[k + 1]] = 1
        /\ bestFlightSoFar = _startTransitionSubFlights[AreaOf(1)] \o SubFlightOf(1)

\* C8: the task time is the duration of (count - 1) segments, and a task
\* with a single waypoint has task time 0 and no move in the schedule.
C8_TaskTimeOfSegments ==
    pc \in {"search", "reconstruct"} =>
        \A i \in 1..Len(_tasks) :
            LET count == Len(SubFlightOf(i))
            IN /\ count >= 1 => taskTimes[i] = Duration(count - 1)
               /\ count = 1 => \A k \in Edges : lastTasks[traced[k + 1]] # i

\* C9: in the frontier a move whose transition failed to plan comes after
\* every move whose transition was planned.
C9_FailedMoveDominated ==
    \A k, l \in DOMAIN worklist :
        (k < l /\ worklist[k].value \in failedMoves)
            => worklist[l].value \notin (DOMAIN transitionFlights \ failedMoves)

\* C10: with no task the search makes no move (it pops the origin, which is
\* the goal, and generates nothing), the reconstruction has a schedule to
\* read, and the path it publishes is empty.
C10_EmptyProblem ==
    Len(_tasks) = 0 =>
        /\ pc = "search" => worklist # <<>>
        /\ pc = "reconstruct" => /\ schedule = << <<>> >>
                                 /\ inserted = << <<>> >>
                                 /\ popped = << <<>> >>
        /\ published >= 1 => bestFlightSoFar = <<>>

C10_Witness ==
    /\ Len(_tasks) = 0
    /\ Len(problem) >= 1
    /\ pc = "paused"
    /\ published = 1
    /\ bestFlightSoFar = <<>>

\* ------------------------------------------------------------ No-Fly zones
Occurrences(s, x) == Cardinality({k \in DOMAIN s : s[k] = x})

NoFlyTasksOf(a) == {k \in DOMAIN problem[a] : problem[a][k] = "No-Fly Zone"}

PlannedTasksOf(a) == {t \in Range(_tasks) : t[1] = a}

\* the tasks of the problem that are not of type "No-Fly Zone"
FlownTasks ==
    {t \in (DOMAIN problem) \X (1..MaxTasksPerArea) :
        t[2] \in DOMAIN problem[t[1]] /\ problem[t[1]][t[2]] # "No-Fly Zone"}

\* the states the search has generated or taken from the frontier
SearchStates == closedSet \cup Range(inserted) \cup Range(popped)

\* C11 (as stated): after a reset every area that carries a "No-Fly Zone"
\* task has no task in the task list and exactly one polygon among the
\* obstacles, and the dimension of every ProgressState of the schedule is the
\* number of tasks that remain.
C11_NoFlyAreaOnce ==
    /\ \A a \in DOMAIN problem :
           NoFlyTasksOf(a) # {} =>
               /\ PlannedTasksOf(a) = {}
               /\ Occurrences(_obstacles, a) = 1
    /\ pc \in {"search", "reconstruct"} =>
           \A st \in SearchStates : Len(st) = Len(_tasks)

\* C11 (amended): after a reset the task list holds exactly the tasks that
\* are not of type "No-Fly Zone", each once; every "No-Fly Zone" task adds
\* one copy of the polygon of its area to the obstacles, so that an area has
\* as many copies as it has such tasks and keeps its other tasks; and the
\* dimension of every ProgressState of the schedule is the number of tasks
\* that are not of type "No-Fly Zone".
C11_NoFlyTasks ==
    /\ Range(_tasks) = FlownTasks
    /\ NoDuplicates(_tasks)
    /\ Range(_obstacles) \subseteq DOMAIN problem
    /\ \A a \in DOMAIN problem :
           Occurrences(_obstacles, a) = Cardinality(NoFlyTasksOf(a))
    /\ pc \in {"search", "reconstruct"} =>
           /\ Len(taskTimes) = Cardinality(FlownTasks)
           /\ \A st \in SearchStates : Len(st) = Cardinality(FlownTasks)

C11_Witness ==
    /\ pc = "reconstruct"
    /\ \E a \in DOMAIN problem : Cardinality(NoFlyTasksOf(a)) = 2
    /\ \E a \in DOMAIN problem : NoFlyTasksOf(a) # {} /\ PlannedTasksOf(a) # {}
    /\ Len(popped) >= 2

\* ------------------------------------------------------- the derived tables
\* the iteration under way has run _buildStartTransitions
StartTransitionsBuilt == pc \in {"subFlights", "schedule", "search", "reconstruct"}

\* the iteration under way has run _buildSubFlights
SubFlightsBuilt == pc \in {"schedule", "search", "reconstruct"}

TaskAreas == {_tasks2areas[t] : t \in Range(_tasks)}

\* C12: every derived table is rebuilt by each iteration, also when the
\* starting position was moved since the iteration before and the planner was
\* not reset: the entries of the start positions, start orientations, start
\* transitions and sub-flights are those the iteration under way computed from
\* its own inputs, and no start transition of an earlier iteration is kept.
C12_TablesRebuilt ==
    /\ StartTransitionsBuilt =>
           \A area \in TaskAreas :
               /\ area \in DOMAIN _areaStartPositions
               /\ area \in DOMAIN _areaStartOrientations
               /\ area \in DOMAIN _startTransitionSubFlights
               /\ area \in Range(startPlans)
               /\ \A k \in DOMAIN _startTransitionSubFlights[area] :
                      _startTransitionSubFlights[area][k] =
                          <<"start", area, startingPosition,
                            _areaStartPositions[area][3], 0, k>>
    /\ SubFlightsBuilt =>
           \A t \in Range(_tasks) :
               /\ t \in DOMAIN _taskSubFlights
               /\ _taskSubFlights[t] =
                      [k \in 1..subFlightPlan[t] |->
                          <<"sub", t[1], t[2], _areaStartPositions[t[1]][3], 0, k>>]

\* -------------------------------------------------------------- determinism
\* the start positions a run has when _tasks2areas.values() comes in order
StartPositionsIn(order) == AreaStartsIn(EmptyHash, order, "areaStart")

\* C13: two runs on the same problem with the same collaborators publish the
\* same path.  Two runs differ in nothing but the addresses of their objects,
\* hence in the order in which the hash table hands out its values: the path
\* a run publishes is the one every such order gives, each start transition
\* and each sub-flight in it planned to or from the start position that the
\* area has under every order.
C13_Determinism ==
    (pc = "paused" /\ published >= 1) =>
        \A order \in HashOrders(Len(_tasks)) :
            \A k \in DOMAIN bestFlightSoFar :
                LET wp == bestFlightSoFar[k]
                IN wp[1] \in {"start", "sub"} =>
                       wp[4] = StartPositionsIn(order)[wp[2]][3]

\* ---------------------------------------------------------------- move cost
\* the remaining work at state s: the Manhattan distance from s to the goal
Remaining(s) == SumSeq([n \in DOMAIN s |-> Abs(taskTimes[n] - s[n])])

\* C14: the frontier key of a state s2 generated from s on axis i is the
\* Manhattan distance from s to the goal plus a penalty: the duration of the
\* start transition of the area of task i when s is the origin; nothing when
\* the last axis of s is i; otherwise the duration of the transition planned
\* from the point of the sub-flight of the last axis j of s at time s[j] to
\* the point of the sub-flight of task i at time s[i], the time before the
\* move.  That transition, and no other, is memoized under s2.
C14_MoveCost ==
    pc = "search" =>
        \A k \in DOMAIN worklist :
            LET s2 == worklist[k].value
                key == worklist[k].key
            IN s2 \in DOMAIN parents =>
                   LET s == parents[s2]
                       i == lastTasks[s2]
                   IN IF s = ZeroVector(Len(_tasks))
                      THEN /\ key = Remaining(s)
                                    + Duration(Len(_startTransitionSubFlights[AreaOf(i)]))
                           /\ s2 \notin DOMAIN transitionFlights
                      ELSE IF lastTasks[s] = i
                      THEN /\ key = Remaining(s)
                           /\ s2 \notin DOMAIN transitionFlights
                      ELSE /\ s2 \in DOMAIN transitionFlights
                           /\ key = Remaining(s) + Duration(Len(transitionFlights[s2]))
                           /\ \A n \in DOMAIN transitionFlights[s2] :
                                  transitionFlights[s2][n] =
                                      <<"trans", lastTasks[s], s[lastTasks[s]], i, s[i], n>>

C14_Witness ==
    /\ pc = "search"
    /\ \E k \in DOMAIN worklist :
           LET s2 == worklist[k].value
           IN /\ s2 \in DOMAIN parents
              /\ parents[s2] = ZeroVector(Len(_tasks))
              /\ worklist[k].key > Remaining(parents[s2])
    /\ \E k \in DOMAIN worklist :
           LET s2 == worklist[k].value
           IN /\ s2 \in DOMAIN parents
              /\ parents[s2] \in DOMAIN lastTasks
              /\ lastTasks[parents[s2]] = lastTasks[s2]
    /\ \E k \in DOMAIN worklist :
           LET s2 == worklist[k].value
           IN /\ s2 \in DOMAIN transitionFlights
              /\ Len(transitionFlights[s2]) >= 1
              /\ parents[s2][lastTasks[s2]] > 0

\* ------------------------------------------------------------- the lattice
\* C15: every state the search generates or pops lies on the lattice: each
\* coordinate i is a multiple of TIMESLICE within [0, T_i] or the task time
\* T_i itself; no coordinate is negative or beyond T_i.
C15_Lattice ==
    pc \in {"search", "reconstruct"} =>
        \A st \in SearchStates \cup {worklist[k].value : k \in DOMAIN worklist} :
            /\ Len(st) = Len(taskTimes)
            /\ \A i \in DOMAIN st :
                   /\ 0 <= st[i]
                   /\ st[i] <= taskTimes[i]
                   /\ \/ st[i] = taskTimes[i]
                      \/ \E k \in 0..(taskTimes[i] \div Slice) : st[i] = k * Slice

C15_Witness ==
    /\ pc = "search"
    /\ \E st \in Range(popped) : \E i \in DOMAIN st :
           /\ st[i] = taskTimes[i]
           /\ taskTimes[i] % Slice # 0
           /\ taskTimes[i] > Slice
    /\ \E st \in Range(inserted) : \E i \in DOMAIN st :
           st[i] = Slice /\ st[i] < taskTimes[i]

\* ------------------------------------------------- closing at generation
\* the axes on which state b differs from state a
AxesBetween(a, b) == {i \in DOMAIN a : a[i] # b[i]}

\* the states the search has generated: all it inserted but the origin
GeneratedStates == Range(inserted) \ {ZeroVector(Len(_tasks))}

\* what the search has recorded for state st
RecordOf(par, last, trans, st) ==
    <<par[st], last[st], IF st \in DOMAIN trans THEN trans[st] ELSE "none">>

ClosedAtGenerationState ==
    pc \in {"search", "reconstruct"} =>
        /\ NoDuplicates(inserted)
        /\ GeneratedStates \subseteq closedSet
        /\ DOMAIN parents = GeneratedStates
        /\ DOMAIN lastTasks = GeneratedStates
        /\ DOMAIN transitionFlights \subseteq GeneratedStates
        /\ \A st \in GeneratedStates : AxesBetween(parents[st], st) = {lastTasks[st]}
        /\ \A k \in Edges : traced[k] = parents[traced[k + 1]]

RecordsKept ==
    pc = "search" =>
        \A st \in DOMAIN parents :
            /\ st \in DOMAIN parents'
            /\ RecordOf(parents', lastTasks', transitionFlights', st)
                   = RecordOf(parents, lastTasks, transitionFlights, st)

\* C16: a state enters the closed set when it is first generated, and it is
\* generated once; its parent, last axis and memoized transition are written
\* then and never again, so that the traceback follows the predecessor that
\* was discovered first; and every generated state differs from its parent on
\* exactly the axis recorded as its last axis.
C16_ClosedAtGeneration == []ClosedAtGenerationState /\ [][RecordsKept]_vars

\* the schedule holds a state that a second popped state also reaches in one
\* move, and the parent of record is the one discovered first
C16_Witness ==
    /\ pc = "reconstruct"
    /\ \E k \in Edges :
           \E p \in Range(popped) \ {traced[k]} :
               \E i \in DOMAIN p :
                   /\ p[i] < taskTimes[i]
                   /\ [p EXCEPT ![i] = Min(taskTimes[i], p[i] + Slice)] = traced[k + 1]

\* ---------------------------------------------------------------- two tasks
\* the context switches of the schedule
Switches == {k \in Edges : IsContextSwitch(k)}

TransitionDuration(st) == Duration(Len(transitionFlights[st]))

\* what the switches of the schedule cost together
SwitchCost == SumSeq([k \in Edges |->
                         IF IsContextSwitch(k) THEN TransitionDuration(traced[k + 1]) ELSE 0])

\* the transitions planned for a schedule with one switch: from the end of
\* one task to the other task
OneSwitchStates ==
    {st \in DOMAIN transitionFlights :
        \E i \in DOMAIN st : /\ parents[st][i] = taskTimes[i]
                             /\ \A j \in DOMAIN st : j # i => parents[st][j] = 0}

TwoTasksOfTwoSlices ==
    /\ pc = "reconstruct"
    /\ Len(_tasks) = 2
    /\ taskTimes = <<2 * Slice, 2 * Slice>>

Corner == [i \in 1..2 |-> IF i = lastTasks[traced[2]] THEN 2 * Slice ELSE Slice]

BadCall ==
    \/ ~interp.outPositionPtr
    \/ ~interp.outOrientationPtr
    \/ interp.goalTime < 0
    \/ interp.path = <<>>

\* the duration of the whole path, as the interpolator walks it
PathDuration == (Len(interp.path) - 1) * EVERY_X_METERS

\* C18: _interpolatePath returns false and leaves the output position and
\* orientation as they were for an empty path, a negative time or a null
\* output pointer; for a path of one point it returns true with that point
\* and the starting orientation; for a time past the duration of a longer
\* path it still returns true, with the position extrapolated on the last
\* segment and that segment's heading.
C18_InterpolatorOutcomes ==
    interp.called =>
        /\ BadCall =>
               /\ ~interp.ret
               /\ interp.outPosition = "before"
               /\ interp.outOrientation = "before"
        /\ (~BadCall /\ Len(interp.path) = 1) =>
               /\ interp.ret
               /\ interp.outPosition = interp.path[1]
               /\ interp.outOrientation = interp.startingOrientation
        /\ (~BadCall /\ Len(interp.path) >= 2 /\ interp.goalTime > PathDuration) =>
               LET n == Len(interp.path)
                   heading == IF interp.path[n] > interp.path[n - 1] THEN 1
                              ELSE IF interp.path[n] < interp.path[n - 1] THEN -1
                              ELSE 0
               IN /\ interp.ret
                  /\ interp.segment = n - 1
                  /\ interp.outOrientation = <<"heading", heading>>
                  /\ interp.ratio[1] > interp.ratio[2]
                  /\ interp.outPosition =
                         interp.path[n - 1]
                             + heading * (interp.goalTime - (n - 2) * EVERY_X_METERS)

C18_Witness ==
    /\ interp.called
    /\ ~BadCall
    /\ Len(interp.path) >= 3
    /\ interp.goalTime > PathDuration
    /\ interp.path[Len(interp.path)] < interp.path[Len(interp.path) - 1]
    /\ interp.ret

\* the path is a straight line of at least two waypoints EVERY_X_METERS apart
StraightPath(path) ==
    /\ Len(path) >= 2
    /\ \/ \A k \in 1..(Len(path) - 1) : path[k + 1] - path[k] = EVERY_X_METERS
       \/ \A k \in 1..(Len(path) - 1) : path[k + 1] - path[k] = -EVERY_X_METERS

\* C19: on a straight path of K >= 2 waypoints EVERY_X_METERS apart, at the
\* time k * EVERY_X_METERS / AIRSPEED of waypoint k, 0 <= k <= K - 1,
\* _interpolatePath takes the first segment that ends at or after that time:
\* the first segment with ratio 0 for k = 0, the segment from waypoint k - 1
\* to waypoint k with ratio 1 otherwise; and it returns waypoint k.
C19_InterpolatorRoundTrip ==
    (interp.called /\ ~BadCall /\ StraightPath(interp.path)) =>
        \A k \in 0..(Len(interp.path) - 1) :
            interp.goalTime = k * EVERY_X_METERS =>
                /\ interp.ret
                /\ interp.segment = (IF k = 0 THEN 1 ELSE k)
                /\ interp.ratio[1] = (IF k = 0 THEN 0 ELSE interp.ratio[2])
                /\ interp.ratio[2] # 0
                /\ interp.outPosition = interp.path[k + 1]

C19_Witness ==
    /\ interp.called
    /\ ~BadCall
    /\ StraightPath(interp.path)
    /\ Len(interp.path) = MaxPathLen
    /\ interp.goalTime = 2 * EVERY_X_METERS
    /\ interp.segment = 2
    /\ interp.outPosition = interp.path[3]

\* ------------------------------------------------- the start transitions
\* the frontier entries of the first moves
FirstMoves == {k \in DOMAIN worklist :
                  /\ worklist[k].value \in DOMAIN parents
                  /\ parents[worklist[k].value] = ZeroVector(Len(_tasks))}

\* C20: a run of _buildStartTransitions calls the intermediate planner once
\* for every area that has a task, and for no other; the result is kept under
\* the area, so that afterwards every area of a task has an entry and the
\* tasks of one area pay for the same start transition.
C20_StartTransitionCache ==
    StartTransitionsBuilt =>
        /\ NoDuplicates(startPlans)
        /\ Range(startPlans) = TaskAreas
        /\ DOMAIN _startTransitionSubFlights = TaskAreas
        /\ pc = "search" =>
               \A k, l \in FirstMoves :
                   AreaOf(lastTasks[worklist[k].value]) = AreaOf(lastTasks[worklist[l].value])
                       => worklist[k].key = worklist[l].key

\* ------------------------------------------------------------- slice bounds
\* floor(t * AIRSPEED / EVERY_X_METERS) for the time t of u time units
FloorIndex(u) == u \div EVERY_X_METERS

\* C21: in the reconstruction every index _getPathPortion reads lies within
\* the sub-flight: for every edge of the schedule, on the axis i of its move,
\* 0 <= floor(prev_i * AIRSPEED / EVERY_X_METERS)
\*   <= floor(cur_i * AIRSPEED / EVERY_X_METERS) <= count of the sub-flight
\* of task i, and the published path holds no waypoint read past the end of
\* a list.  (Stated while the tables of the iteration stand.)
C21_SliceBounds ==
    (pc = "paused" /\ published >= 1 /\ Range(_tasks) \subseteq DOMAIN _taskSubFlights) =>
        /\ \A k \in Edges :
               LET i == lastTasks[traced[k + 1]]
               IN /\ 0 <= FloorIndex(traced[k][i])
                  /\ FloorIndex(traced[k][i]) <= FloorIndex(traced[k + 1][i])
                  /\ FloorIndex(traced[k + 1][i]) <= Len(SubFlightOf(i))
        /\ \A n \in DOMAIN bestFlightSoFar : bestFlightSoFar[n][1] # "outOfRange"

\* the path ends one sub-flight at its last waypoint, read by a slice that
\* the task time cut short of a whole TIMESLICE
C21_Witness ==
    /\ pc = "paused"
    /\ published >= 1
    /\ Len(_tasks) = 2
    /\ \E i \in 1..Len(_tasks) :
           /\ taskTimes[i] % Slice # 0
           /\ taskTimes[i] > Slice
           /\ \E n \in DOMAIN bestFlightSoFar :
                  /\ bestFlightSoFar[n][1] = "sub"
                  /\ <<bestFlightSoFar[n][2], bestFlightSoFar[n][3]>> = _tasks[i]
                  /\ bestFlightSoFar[n][6] = Len(SubFlightOf(i))

\* ------------------------------------------------------ the Dubins planner
\* round(length / interval), half away from zero
Rounded(length, interval) ==
    IF 2 * (length % interval) >= interval
    THEN length \div interval + 1
    ELSE length \div interval

\* C22: plan() discards what an earlier call left: after any number of calls
\* on one object, a call that returned true leaves results() with exactly
\* round(length / waypointInterval) waypoints, the samples at the arc lengths
\* 0, interval, 2 * interval, ... in order, and a call that failed because
\* the Dubins path is not valid leaves results() empty.
C22_DubinsResults ==
    dubins.calls >= 1 =>
        /\ dubins.ret =>
               /\ Len(dubins._results) = Rounded(dubins.length, dubins.interval)
               /\ \A k \in DOMAIN dubins._results :
                      dubins._results[k] = <<"dubins", (k - 1) * dubins.interval, 0, 0, 0, 0>>
        /\ ~dubins.valid => (~dubins.ret /\ dubins._results = <<>>)

\* a second call that returned true with several waypoints
C22_Witness ==
    /\ dubins.calls = 2
    /\ dubins.ret
    /\ Len(dubins._results) >= 3
    /\ dubins.length % dubins.interval # 0

====
